---- MODULE Spec2Model ----
(***************************************************************************)
(* Minesweeper (game.py): Cell, Board and the Game event loop.             *)
(*                                                                         *)
(* The grid is a function from <<x, y>> to a Cell record.  Construction of *)
(* a Board is modelled step by step (one iteration of the mine-placement   *)
(* loop per step, then the adjacency pass); afterwards the board is driven *)
(* either through the Board API (Spec) or through events delivered by the  *)
(* game loop (GameSpec).                                                   *)
(***************************************************************************)
EXTENDS Integers, Sequences, FiniteSets, TLC

\* Largest board area (width * height) explored.
MaxCells == 4
\* Largest num_mines passed to Board(width, height, num_mines).
MaxMines == 2
\* Game.cell_size: the side of a cell in pixels.
cell_size == 40

VARIABLES
    width,          \* Board.width
    height,         \* Board.height
    num_mines,      \* Board.num_mines
    grid,           \* Board.grid: <<x, y>> -> Cell
    mines_placed,   \* the local counter of Board._place_mines
    pc,             \* "place": in the loop of _place_mines; "play": constructed;
                    \* "exited": the loop of Game._run has ended
    running,        \* Game.running
    game_over,      \* Game.game_over
    game_won,       \* Game.game_won
    last            \* the last operation performed, its arguments and result

vars == <<width, height, num_mines, grid, mines_placed, pc,
          running, game_over, game_won, last>>

boardVars == <<width, height, num_mines>>
gameVars == <<running, game_over, game_won>>

Max(a, b) == IF a > b THEN a ELSE b
Min(a, b) == IF a < b THEN a ELSE b

\* range(a, b) of Python, as a set.
Range(a, b) == a .. (b - 1)

\* The coordinates of a w x h grid.
Pos(w, h) == Range(0, w) \X Range(0, h)

Cells == Pos(width, height)

----------------------------------------------------------------------------
(* Cell *)

\* Cell.__init__
Cell == [is_mine |-> FALSE, is_revealed |-> FALSE, is_flagged |-> FALSE,
         adjacent_mines |-> 0]

\* Cell.reveal
Cell_reveal(c) ==
    IF ~c.is_flagged THEN [c EXCEPT !.is_revealed = TRUE] ELSE c

\* A toggle that does not look at is_revealed.
Cell_toggle_flag_unguarded(c) ==
    [c EXCEPT !.is_flagged = ~c.is_flagged]

\* A flag operation that sets the flag instead of flipping it.
Cell_toggle_flag_set(c) ==
    IF ~c.is_revealed THEN [c EXCEPT !.is_flagged = TRUE] ELSE c

\* Cell.toggle_flag
Cell_toggle_flag(c) ==
    IF ~c.is_revealed THEN [c EXCEPT !.is_flagged = ~c.is_flagged] ELSE c

----------------------------------------------------------------------------
(* Board: construction *)

\* The neighbourhood the loops of _count_adjacent_mines and
\* _reveal_adjacent_cells range over, as bounds: i in range(ilo, ihi),
\* j in range(jlo, jhi).
ilo(x) == Max(0, x - 1)
ihi(x) == Min(width, x + 2)
jlo(y) == Max(0, y - 1)
jhi(y) == Min(height, y + 2)

\* A count whose i-range stops one column early.
count_adjacent_mines_short(g, x, y) ==
    Cardinality({p \in Range(ilo(x), Min(width, x + 1)) \X Range(jlo(y), jhi(y)) :
                    g[p].is_mine})

\* Board._count_adjacent_mines
count_adjacent_mines(g, x, y) ==
    Cardinality({p \in Range(ilo(x), ihi(x)) \X Range(jlo(y), jhi(y)) :
                    g[p].is_mine})

\* An adjacency pass that also writes the count of the mine cells.
calculate_adjacency_all(g) ==
    [p \in DOMAIN g |->
        [g[p] EXCEPT !.adjacent_mines = count_adjacent_mines(g, p[1], p[2])]]

\* Board._calculate_adjacency
calculate_adjacency(g) ==
    [p \in DOMAIN g |->
        IF ~g[p].is_mine
        THEN [g[p] EXCEPT !.adjacent_mines = count_adjacent_mines(g, p[1], p[2])]
        ELSE g[p]]

noOp == [op |-> "none", x |-> 0, y |-> 0, button |-> 0, ret |-> FALSE]

\* Board(w, h, m): Board.__init__ up to the call of _place_mines;
\* Game.__init__ sets the flags.
InitBoard(w, h, m) ==
    /\ width = w
    /\ height = h
    /\ num_mines = m
    /\ grid = [p \in Pos(w, h) |-> Cell]
    /\ mines_placed = 0
    /\ pc = "place"
    /\ running = TRUE
    /\ game_over = FALSE
    /\ game_won = FALSE
    /\ last = noOp

\* A board of at most MaxCells cells with at most MaxMines mines asked for.
Init ==
    \E w \in 1 .. MaxCells, h \in 1 .. MaxCells, m \in 0 .. MaxMines :
        /\ w * h <= MaxCells
        /\ InitBoard(w, h, m)

\* An iteration that counts the mine without looking at is_mine.
PlaceMineUnchecked(x, y) ==
    /\ pc = "place"
    /\ mines_placed < num_mines
    /\ grid' = [grid EXCEPT ![<<x, y>>].is_mine = TRUE]
    /\ mines_placed' = mines_placed + 1
    /\ UNCHANGED <<boardVars, pc, gameVars, last>>

\* One iteration of the while loop of Board._place_mines, with the random
\* coordinate (x, y).
PlaceMine(x, y) ==
    /\ pc = "place"
    /\ mines_placed < num_mines
    /\ IF ~grid[<<x, y>>].is_mine
       THEN /\ grid' = [grid EXCEPT ![<<x, y>>].is_mine = TRUE]
            /\ mines_placed' = mines_placed + 1
       ELSE UNCHANGED <<grid, mines_placed>>
    /\ UNCHANGED <<boardVars, pc, gameVars, last>>

\* The exit of the while loop of _place_mines and the rest of Board.__init__:
\* _calculate_adjacency.
FinishConstruct ==
    /\ pc = "place"
    /\ ~(mines_placed < num_mines)
    /\ grid' = calculate_adjacency(grid)
    /\ pc' = "play"
    /\ UNCHANGED <<boardVars, mines_placed, gameVars, last>>

----------------------------------------------------------------------------
(* Board: operations *)

\* A neighbourhood whose i-range stops one column early.
adjacent_seq_short(x, y) ==
    LET nj == jhi(y) - jlo(y)
        n  == (Min(width, x + 1) - ilo(x)) * nj
    IN  [k \in 1 .. n |-> <<ilo(x) + ((k - 1) \div nj), jlo(y) + ((k - 1) % nj)>>]

\* The cells visited by the nested loops of _reveal_adjacent_cells(x, y), in
\* the order of the loops (i outer, j inner).
adjacent_seq(x, y) ==
    LET nj == jhi(y) - jlo(y)
        n  == (ihi(x) - ilo(x)) * nj
    IN  [k \in 1 .. n |-> <<ilo(x) + ((k - 1) \div nj), jlo(y) + ((k - 1) % nj)>>]

RECURSIVE reveal_cell(_, _, _), reveal_adjacent_cells_from(_, _, _)

\* A reveal that sets is_revealed itself and never looks at the flag.
reveal_cell_ignoring_flag(g, x, y) ==
    LET cell == g[<<x, y>>] IN
    IF ~cell.is_revealed
    THEN LET g1 == [g EXCEPT ![<<x, y>>].is_revealed = TRUE] IN
         IF cell.adjacent_mines = 0 /\ ~cell.is_mine
         THEN reveal_adjacent_cells_from(g1, adjacent_seq(x, y), 1)
         ELSE g1
    ELSE g

\* A reveal that never looks at the neighbours.
reveal_cell_single(g, x, y) ==
    LET cell == g[<<x, y>>] IN
    IF ~cell.is_revealed /\ ~cell.is_flagged
    THEN [g EXCEPT ![<<x, y>>] = Cell_reveal(cell)]
    ELSE g

\* Board.reveal_cell
reveal_cell(g, x, y) ==
    LET cell == g[<<x, y>>] IN
    IF ~cell.is_revealed /\ ~cell.is_flagged
    THEN LET g1 == [g EXCEPT ![<<x, y>>] = Cell_reveal(cell)] IN
         IF cell.adjacent_mines = 0 /\ ~cell.is_mine
         THEN reveal_adjacent_cells_from(g1, adjacent_seq(x, y), 1)
         ELSE g1
    ELSE g

\* Board._reveal_adjacent_cells: the loops from their k-th iteration on.
reveal_adjacent_cells_from(g, seq, k) ==
    IF k > Len(seq)
    THEN g
    ELSE LET p == seq[k] IN
         reveal_adjacent_cells_from(
             IF ~g[p].is_revealed THEN reveal_cell(g, p[1], p[2]) ELSE g,
             seq, k + 1)

\* The most calls of reveal_cell that one call can lead to on a grid of n
\* cells when no cell is entered twice: the call itself and, for every cell
\* entered, one call per neighbour.
call_limit(n) == 1 + 8 * n

RECURSIVE reveal_cell_counted(_, _, _), reveal_adjacent_cells_counted(_, _, _)

\* A reveal that visits the neighbours before it marks the cell revealed.
reveal_cell_counted_flood_first(s, x, y) ==
    IF s.calls > call_limit(Cardinality(DOMAIN s.g))
    THEN s
    ELSE LET s1   == [s EXCEPT !.calls = @ + 1]
             cell == s.g[<<x, y>>]
         IN  IF ~cell.is_revealed /\ ~cell.is_flagged
             THEN LET s2 == IF cell.adjacent_mines = 0 /\ ~cell.is_mine
                            THEN reveal_adjacent_cells_counted(
                                     [s1 EXCEPT !.entered = @ + 1], adjacent_seq(x, y), 1)
                            ELSE [s1 EXCEPT !.entered = @ + 1]
                  IN  [s2 EXCEPT !.g[<<x, y>>] = Cell_reveal(s2.g[<<x, y>>])]
             ELSE s1

\* Board.reveal_cell on the grid s.g, with the calls of reveal_cell counted
\* in s.calls and those that get past the guard in s.entered.  The count
\* stops one past call_limit: a call beyond it is not followed.
reveal_cell_counted(s, x, y) ==
    IF s.calls > call_limit(Cardinality(DOMAIN s.g))
    THEN s
    ELSE LET s1   == [s EXCEPT !.calls = @ + 1]
             cell == s.g[<<x, y>>]
         IN  IF ~cell.is_revealed /\ ~cell.is_flagged
             THEN LET s2 == [s1 EXCEPT !.g[<<x, y>>] = Cell_reveal(cell),
                                       !.entered = @ + 1]
                  IN  IF cell.adjacent_mines = 0 /\ ~cell.is_mine
                      THEN reveal_adjacent_cells_counted(s2, adjacent_seq(x, y), 1)
                      ELSE s2
             ELSE s1

\* Board._reveal_adjacent_cells with the calls counted: the loops from their
\* k-th iteration on.
reveal_adjacent_cells_counted(s, seq, k) ==
    IF k > Len(seq)
    THEN s
    ELSE LET p == seq[k] IN
         reveal_adjacent_cells_counted(
             IF ~s.g[p].is_revealed THEN reveal_cell_counted(s, p[1], p[2]) ELSE s,
             seq, k + 1)

\* Board.toggle_flag
Board_toggle_flag(g, x, y) ==
    [g EXCEPT ![<<x, y>>] = Cell_toggle_flag(g[<<x, y>>])]

\* The cells in the order of the loops of check_win (x outer, y inner).
all_seq ==
    [k \in 1 .. (width * height) |-> <<(k - 1) \div height, (k - 1) % height>>]

RECURSIVE check_win_from(_, _, _)

\* A win check that does not ask for the mines to be flagged.
check_win_from_unflagged(g, seq, k) ==
    IF k > Len(seq)
    THEN TRUE
    ELSE LET cell == g[seq[k]] IN
         IF ~cell.is_mine /\ ~cell.is_revealed
         THEN FALSE
         ELSE check_win_from(g, seq, k + 1)

\* The loops of Board.check_win from their k-th iteration on.
check_win_from(g, seq, k) ==
    IF k > Len(seq)
    THEN TRUE
    ELSE LET cell == g[seq[k]] IN
         IF (cell.is_mine /\ ~cell.is_flagged) \/ (~cell.is_mine /\ ~cell.is_revealed)
         THEN FALSE
         ELSE check_win_from(g, seq, k + 1)

\* Board.check_win
check_win(g) == check_win_from(g, all_seq, 1)

\* A call board.reveal_cell(x, y) on the constructed board.
RevealCell(x, y) ==
    /\ pc = "play"
    /\ grid' = reveal_cell(grid, x, y)
    /\ last' = [op |-> "reveal_cell", x |-> x, y |-> y, button |-> 0, ret |-> FALSE]
    /\ UNCHANGED <<boardVars, mines_placed, pc, gameVars>>

\* A call board.toggle_flag(x, y) on the constructed board.
ToggleFlag(x, y) ==
    /\ pc = "play"
    /\ grid' = Board_toggle_flag(grid, x, y)
    /\ last' = [op |-> "toggle_flag", x |-> x, y |-> y, button |-> 0, ret |-> FALSE]
    /\ UNCHANGED <<boardVars, mines_placed, pc, gameVars>>

\* A win check that uncovers the mines once the game is won.
CheckWinUncovering ==
    /\ pc = "play"
    /\ last' = [op |-> "check_win", x |-> 0, y |-> 0, button |-> 0,
                ret |-> check_win(grid)]
    /\ grid' = IF check_win(grid)
               THEN [p \in DOMAIN grid |->
                        IF grid[p].is_mine
                        THEN [grid[p] EXCEPT !.is_revealed = TRUE]
                        ELSE grid[p]]
               ELSE grid
    /\ UNCHANGED <<boardVars, mines_placed, pc, gameVars>>

\* A call board.check_win() on the constructed board; its value is kept in
\* last.ret.
CheckWin ==
    /\ pc = "play"
    /\ last' = [op |-> "check_win", x |-> 0, y |-> 0, button |-> 0,
                ret |-> check_win(grid)]
    /\ UNCHANGED <<boardVars, grid, mines_placed, pc, gameVars>>

\* The Board driven through its API.
Next ==
    \/ \E p \in Cells : PlaceMine(p[1], p[2])
    \/ FinishConstruct
    \/ \E p \in Cells : RevealCell(p[1], p[2])
    \/ \E p \in Cells : ToggleFlag(p[1], p[2])
    \/ CheckWin

Spec == Init /\ [][Next]_vars

----------------------------------------------------------------------------
(* Game *)

\* The offsets inside a cell at which the modelled clicks land, in pixels: its
\* first and its last pixel on the diagonal.
ClickOffsets == {0, cell_size - 1}

\* The event.pos values of the modelled clicks: the window is
\* width * cell_size by height * cell_size pixels.
ClickPos ==
    {<<p[1] * cell_size + o, p[2] * cell_size + o>> : p \in Cells, o \in ClickOffsets}

\* A click handler that reveals the cell before it looks for a mine.
handle_click_reveal_first(px, py, button) ==
    LET grid_x == px \div cell_size
        grid_y == py \div cell_size
        cell   == grid[<<grid_x, grid_y>>]
        g2     == IF button = 1
                  THEN reveal_cell(grid, grid_x, grid_y)
                  ELSE IF button = 3 THEN Board_toggle_flag(grid, grid_x, grid_y)
                       ELSE grid
        won    == check_win(g2)
    IN  /\ game_over' = IF button = 1 /\ cell.is_mine THEN TRUE ELSE game_over
        /\ grid' = g2
        /\ game_won' = IF won THEN TRUE ELSE game_won
        /\ last' = [op |-> "click", x |-> grid_x, y |-> grid_y,
                    button |-> button, ret |-> won]
        /\ UNCHANGED <<boardVars, mines_placed, pc, running>>

\* A click handler that checks for a win only after a left click.
handle_click_writes_win_on_reveal(px, py, button) ==
    LET grid_x == px \div cell_size
        grid_y == py \div cell_size
        cell   == grid[<<grid_x, grid_y>>]
        g2     == IF button = 1
                  THEN IF cell.is_mine THEN grid
                       ELSE reveal_cell(grid, grid_x, grid_y)
                  ELSE IF button = 3 THEN Board_toggle_flag(grid, grid_x, grid_y)
                       ELSE grid
        won    == button = 1 /\ check_win(g2)
    IN  /\ game_over' = IF button = 1 /\ cell.is_mine THEN TRUE ELSE game_over
        /\ grid' = g2
        /\ game_won' = IF won THEN TRUE ELSE game_won
        /\ last' = [op |-> "click", x |-> grid_x, y |-> grid_y,
                    button |-> button, ret |-> won]

\* What Game._handle_click writes for an event with pos = (px, py) and the
\* given button.
handle_click_writes(px, py, button) ==
    LET grid_x == px \div cell_size
        grid_y == py \div cell_size
        cell   == grid[<<grid_x, grid_y>>]
        g2     == IF button = 1
                  THEN IF cell.is_mine THEN grid
                       ELSE reveal_cell(grid, grid_x, grid_y)
                  ELSE IF button = 3 THEN Board_toggle_flag(grid, grid_x, grid_y)
                       ELSE grid
        won    == check_win(g2)
    IN  /\ game_over' = IF button = 1 /\ cell.is_mine THEN TRUE ELSE game_over
        /\ grid' = g2
        /\ game_won' = IF won THEN TRUE ELSE game_won
        /\ last' = [op |-> "click", x |-> grid_x, y |-> grid_y,
                    button |-> button, ret |-> won]

\* Game._handle_click for an event with pos = (px, py) and the given button.
handle_click(px, py, button) ==
    /\ handle_click_writes(px, py, button)
    /\ UNCHANGED <<boardVars, mines_placed, pc, running>>

\* A MOUSEBUTTONDOWN event that the loop hands to _handle_click whatever the
\* flags are.
MouseButtonDownAlways(px, py, button) ==
    /\ pc = "play"
    /\ handle_click(px, py, button)

\* Game._run: a MOUSEBUTTONDOWN event taken from the queue.  It is handled
\* only while the game is neither lost nor won.
MouseButtonDown(px, py, button) ==
    /\ pc = "play"
    /\ IF ~game_over /\ ~game_won
       THEN handle_click(px, py, button)
       ELSE /\ last' = [op |-> "ignored", x |-> 0, y |-> 0, button |-> 0,
                        ret |-> FALSE]
            /\ UNCHANGED <<boardVars, grid, mines_placed, pc, gameVars>>

\* Game._run: a QUIT event taken from the queue.
Quit ==
    /\ pc = "play"
    /\ running' = FALSE
    /\ last' = [op |-> "quit", x |-> 0, y |-> 0, button |-> 0, ret |-> FALSE]
    /\ UNCHANGED <<boardVars, grid, mines_placed, pc, game_over, game_won>>

\* Game._run: the queue is drained and the while condition is false.
ExitLoop ==
    /\ pc = "play"
    /\ ~running
    /\ pc' = "exited"
    /\ UNCHANGED <<boardVars, grid, mines_placed, gameVars, last>>

\* The mouse buttons of the modelled events: left, middle, right.
Buttons == {1, 2, 3}

\* The Board driven by the events of the game loop.
GameNext ==
    \/ \E p \in Cells : PlaceMine(p[1], p[2])
    \/ FinishConstruct
    \/ \E pos \in ClickPos, b \in Buttons : MouseButtonDown(pos[1], pos[2], b)
    \/ Quit
    \/ ExitLoop

GameSpec == Init /\ [][GameNext]_vars

----------------------------------------------------------------------------
(* Properties *)

Abs(n) == IF n < 0 THEN -n ELSE n

Mines(g) == {p \in DOMAIN g : g[p].is_mine}
Revealed(g) == {p \in DOMAIN g : g[p].is_revealed}
Flagged(g) == {p \in DOMAIN g : g[p].is_flagged}

\* The cells (i, j) of the grid with |i - x| <= 1 and |j - y| <= 1.
Around(p) == {q \in Cells : Abs(q[1] - p[1]) <= 1 /\ Abs(q[2] - p[2]) <= 1}

\* The argument of the last reveal_cell, toggle_flag or click.
Target(l) == <<l.x, l.y>>

\* C1: a Board constructed with 0 <= num_mines < width * height has exactly
\* num_mines mine cells, and no operation on the constructed board changes
\* the set of mine cells.
C1_MinesFixed ==
    /\ [](pc = "play" /\ num_mines < width * height
            => Cardinality(Mines(grid)) = num_mines)
    /\ [][pc = "play" => Mines(grid') = Mines(grid)]_vars

C1_Witness ==
    /\ pc = "play"
    /\ num_mines = 2
    /\ num_mines < width * height
    /\ Cardinality(Mines(grid)) = 2
    /\ last.op = "check_win"
    /\ Revealed(grid) # {}
    /\ Flagged(grid) # {}

\* C2: on a constructed board, and again after a further call of
\* _calculate_adjacency, adjacent_mines of every cell that is not a mine is
\* the number of mines among the in-grid cells at distance at most 1 in
\* both coordinates.
C2_AdjacencyExact ==
    pc = "play" =>
        \A p \in Cells :
            ~grid[p].is_mine =>
                /\ grid[p].adjacent_mines = Cardinality(Around(p) \cap Mines(grid))
                /\ calculate_adjacency(grid)[p].adjacent_mines
                       = Cardinality(Around(p) \cap Mines(grid))

C2_Witness ==
    /\ pc = "play"
    /\ \E p \in Cells : ~grid[p].is_mine /\ grid[p].adjacent_mines = 2
    /\ \E p \in Cells : ~grid[p].is_mine /\ grid[p].adjacent_mines = 1
                          /\ Cardinality(Around(p)) < Cardinality(Cells)

\* C3: no cell is both revealed and flagged, whatever reveal_cell and
\* toggle_flag calls were made.
C3_NeverRevealedAndFlagged ==
    \A p \in Cells : ~(grid[p].is_revealed /\ grid[p].is_flagged)

C3_Witness ==
    /\ last.op = "toggle_flag"
    /\ grid[Target(last)].is_revealed
    /\ Flagged(grid) # {}

\* C4: reveal_cell(x, y) on a hidden unflagged cell leaves the cell revealed;
\* on a flagged cell it changes no cell and the cell stays hidden.
C4_RevealGatedByFlag ==
    [][last'.op = "reveal_cell" =>
          LET p == Target(last') IN
          /\ (~grid[p].is_revealed /\ ~grid[p].is_flagged) => grid'[p].is_revealed
          /\ grid[p].is_flagged => (grid' = grid /\ ~grid'[p].is_revealed)
          /\ grid[p].is_flagged => Cell_reveal(grid[p]) = grid[p]]_vars

C4_Witness ==
    /\ last.op = "reveal_cell"
    /\ grid[Target(last)].is_flagged
    /\ ~grid[Target(last)].is_revealed
    /\ ~grid[Target(last)].is_mine
    /\ grid[Target(last)].adjacent_mines = 0
    /\ \E q \in Around(Target(last)) : ~grid[q].is_revealed /\ ~grid[q].is_flagged

\* C5: toggle_flag(x, y) on a revealed cell changes no cell, and the cell is
\* not flagged.
C5_FlagRevealedNoOp ==
    [][(last'.op = "toggle_flag" /\ grid[Target(last')].is_revealed) =>
          (grid' = grid /\ ~grid'[Target(last')].is_flagged)]_vars

C5_Witness ==
    /\ last.op = "toggle_flag"
    /\ grid[Target(last)].is_revealed
    /\ ~grid[Target(last)].is_flagged
    /\ grid[Target(last)].is_mine

\* C6: toggle_flag(x, y) on a hidden cell flips is_flagged, and calling it a
\* second time gives back the board as it was before the first call.
C6_ToggleInvolution ==
    [][(last'.op = "toggle_flag" /\ ~grid[Target(last')].is_revealed) =>
          LET p == Target(last') IN
          /\ grid'[p].is_flagged = ~grid[p].is_flagged
          /\ Board_toggle_flag(grid', p[1], p[2]) = grid
          /\ ~grid[p].is_flagged =>
                ~Board_toggle_flag(grid', p[1], p[2])[p].is_flagged]_vars

C6_Witness ==
    /\ last.op = "toggle_flag"
    /\ ~grid[Target(last)].is_revealed
    /\ ~grid[Target(last)].is_flagged
    /\ Revealed(grid) # {}

\* A cell that is not a mine and has no mine around it.
ZeroCell(g, p) == ~g[p].is_mine /\ g[p].adjacent_mines = 0

RECURSIVE GrowRegion(_, _)
\* The closure of S under "a zero cell next to a cell of S".
GrowRegion(g, S) ==
    LET T == S \cup {q \in Cells : ZeroCell(g, q) /\ \E r \in S : q \in Around(r)}
    IN  IF T = S THEN S ELSE GrowRegion(g, T)

\* The contiguous (8-connected) region of zero cells that contains p.
Region(g, p) == GrowRegion(g, {p})

\* The region of p and the cells that border it.
RegionAndBorder(g, p) == UNION {Around(r) : r \in Region(g, p)}

RECURSIVE GrowFlood(_, _)
\* The closure of S under "a hidden unflagged cell next to a zero cell of S".
GrowFlood(g, S) ==
    LET T == S \cup {q \in Cells :
                        /\ ~g[q].is_revealed /\ ~g[q].is_flagged
                        /\ \E r \in S : ZeroCell(g, r) /\ q \in Around(r)}
    IN  IF T = S THEN S ELSE GrowFlood(g, T)

\* The cells reached from p by a path of cells that are hidden and unflagged
\* in g and of which all but the last are zero cells.
Flood(g, p) == GrowFlood(g, {p})

\* The last step was reveal_cell on a hidden, unflagged zero cell.
RevealOfZeroCell ==
    /\ last'.op = "reveal_cell"
    /\ ~grid[Target(last')].is_revealed
    /\ ~grid[Target(last')].is_flagged
    /\ ZeroCell(grid, Target(last'))

\* C7 as stated: reveal_cell on a hidden, unflagged zero cell leaves revealed
\* every cell of the cell's zero region and of its border, and reveals no
\* cell outside them.
C7_WholeRegionRevealed ==
    [][RevealOfZeroCell =>
          LET RB == RegionAndBorder(grid, Target(last')) IN
          /\ RB \subseteq Revealed(grid')
          /\ (Revealed(grid') \ Revealed(grid)) \subseteq RB]_vars

\* C7 amended: reveal_cell on a hidden, unflagged zero cell reveals exactly
\* the cells reached from it through hidden unflagged zero cells (flagged
\* cells stay hidden and stop the fill, cells revealed earlier are not
\* expanded again) and changes nothing else; these cells lie in the zero
\* region and its border, and they are all of it when no cell of the region
\* or border is flagged and no cell of the region was revealed before.
C7_FloodRevealed ==
    [][RevealOfZeroCell =>
          LET p  == Target(last')
              RB == RegionAndBorder(grid, p)
          IN  /\ grid' = [q \in Cells |->
                            IF q \in Flood(grid, p)
                            THEN [grid[q] EXCEPT !.is_revealed = TRUE]
                            ELSE grid[q]]
              /\ Flood(grid, p) \subseteq RB
              /\ (RB \cap Flagged(grid) = {} /\ Region(grid, p) \cap Revealed(grid) = {})
                    => RB \subseteq Revealed(grid')]_vars

C7_Witness ==
    /\ last.op = "reveal_cell"
    /\ ZeroCell(grid, Target(last))
    /\ grid[Target(last)].is_revealed
    /\ \E q \in Region(grid, Target(last)) : grid[q].is_flagged
    /\ \E q \in Cells : q \notin RegionAndBorder(grid, Target(last))
    /\ \E q \in RegionAndBorder(grid, Target(last)) \ Region(grid, Target(last)) :
          grid[q].is_revealed

\* C8: check_win() is true exactly when every mine is flagged and every cell
\* that is not a mine is revealed.
C8_CheckWinIff ==
    pc = "play" =>
        LET won == /\ \A p \in Cells : grid[p].is_mine => grid[p].is_flagged
                   /\ \A p \in Cells : ~grid[p].is_mine => grid[p].is_revealed
        IN  /\ check_win(grid) = won
            /\ last.op = "check_win" => last.ret = won

C8_Witness ==
    /\ last.op = "check_win"
    /\ last.ret = TRUE
    /\ Mines(grid) # {}
    /\ Cardinality(Cells \ Mines(grid)) >= 2

\* C9: a left click handled on a mine sets game_over and changes no cell;
\* the mine stays hidden.
C9_MineClickLoses ==
    [][(last'.op = "click" /\ last'.button = 1 /\ grid[Target(last')].is_mine) =>
          /\ game_over'
          /\ grid' = grid
          /\ ~grid'[Target(last')].is_revealed]_vars

C9_Witness ==
    /\ last.op = "click"
    /\ last.button = 1
    /\ grid[Target(last)].is_mine
    /\ game_over
    /\ ~grid[Target(last)].is_revealed
    /\ ~grid[Target(last)].is_flagged
    /\ Revealed(grid) # {}

\* C10: once game_over or game_won is true, no cell, and neither flag,
\* changes again; running changes only by a QUIT event.
C10_FrozenAfterEnd ==
    [][/\ (game_over \/ game_won) =>
             (grid' = grid /\ game_over' = game_over /\ game_won' = game_won)
       /\ running' # running => last'.op = "quit"]_vars

C10_Witness ==
    /\ last.op = "ignored"
    /\ game_won
    /\ Flagged(grid) # {}
    /\ running

----------------------------------------------------------------------------
(* The 3 x 3 board with its single mine at (0, 0) *)

\* Board(3, 3, 1).
CornerInit == InitBoard(3, 3, 1)

\* The Board API on that board; the coordinate drawn by _place_mines is (0, 0).
CornerNext ==
    \/ PlaceMine(0, 0)
    \/ FinishConstruct
    \/ \E p \in Cells : RevealCell(p[1], p[2])
    \/ \E p \in Cells : ToggleFlag(p[1], p[2])
    \/ CheckWin

CornerSpec == CornerInit /\ [][CornerNext]_vars

\* C11: on the fresh 3 x 3 board with its mine at (0, 0), reveal_cell(2, 2)
\* reveals the eight other cells and leaves (0, 0) hidden; check_win() is
\* false before and after it, and true after toggle_flag(0, 0) of the
\* resulting board; check_win() is never true while (0, 0) is unflagged.
C11_CornerScenario ==
    /\ [][(last'.op = "reveal_cell" /\ Target(last') = <<2, 2>>
             /\ Revealed(grid) = {} /\ Flagged(grid) = {}) =>
             /\ Revealed(grid') = Cells \ {<<0, 0>>}
             /\ ~check_win(grid)
             /\ ~check_win(grid')
             /\ check_win(Board_toggle_flag(grid', 0, 0))]_vars
    /\ [](pc = "play" =>
             /\ check_win(grid) => grid[<<0, 0>>].is_flagged
             /\ (last.op = "check_win" /\ last.ret) => grid[<<0, 0>>].is_flagged
             /\ (last.op = "check_win" /\ grid[<<0, 0>>].is_flagged
                    /\ Revealed(grid) = Cells \ {<<0, 0>>}) => last.ret)

C11_Witness ==
    /\ width = 3 /\ height = 3
    /\ Mines(grid) = {<<0, 0>>}
    /\ last.op = "check_win"
    /\ last.ret
    /\ Flagged(grid) = {<<0, 0>>}
    /\ Revealed(grid) = Cells \ {<<0, 0>>}

----------------------------------------------------------------------------
(* test_win_condition *)

\* Game(width=3, height=3, mines=m).
WinTestInit == \E m \in 0 .. MaxMines : InitBoard(3, 3, m)

\* The event positions of the test's loops: pos = (x, y) for x in
\* range(1, width), y in range(height).
TestClicks ==
    [k \in 1 .. ((width - 1) * height) |->
        <<1 + ((k - 1) \div height), (k - 1) % height>>]

\* The position of the test after its k-th click.
ClickPc == <<"click_1", "click_2", "click_3", "click_4", "click_5", "click_6">>

\* game.board.toggle_flag(x, y) on a mine that is not flagged yet.
TestFlagMine(x, y) ==
    /\ grid[<<x, y>>].is_mine
    /\ ~grid[<<x, y>>].is_flagged
    /\ ToggleFlag(x, y)

\* The k-th call game._handle_click(event) of the test, a left click at
\* TestClicks[k], once every mine is flagged.
TestClick(k) ==
    /\ pc = IF k = 1 THEN "play" ELSE ClickPc[k - 1]
    /\ Mines(grid) \subseteq Flagged(grid)
    /\ handle_click_writes(TestClicks[k][1], TestClicks[k][2], 1)
    /\ pc' = ClickPc[k]
    /\ UNCHANGED <<boardVars, mines_placed, running>>

WinTestNext ==
    \/ \E p \in Cells : PlaceMine(p[1], p[2])
    \/ FinishConstruct
    \/ \E p \in Cells : TestFlagMine(p[1], p[2])
    \/ \E k \in 1 .. Len(TestClicks) : TestClick(k)

WinTestSpec == WinTestInit /\ [][WinTestNext]_vars

\* C12: with every mine flagged, after the left clicks at pos = (x, y) for
\* x in 1 .. width - 1 and y in 0 .. height - 1 on the 3 x 3 board with its
\* mine at (0, 0), every cell that is not a mine is revealed and game_won is
\* true.
C12_TestWins ==
    (pc = ClickPc[Len(TestClicks)] /\ Mines(grid) = {<<0, 0>>}) =>
        /\ \A p \in Cells : ~grid[p].is_mine => grid[p].is_revealed
        /\ game_won

----------------------------------------------------------------------------

\* The call reveal_cell(x, y) on g with its calls counted from zero.
CountedReveal(g, p) ==
    reveal_cell_counted([g |-> g, calls |-> 0, entered |-> 0], p[1], p[2])

C14_NeverConstructed ==
    num_mines >= width * height => pc = "place"

\* C14 amended: with num_mines > width * height the loop of _place_mines
\* never ends; with num_mines = width * height it ends, every cell a mine.
C14_NeverConstructedAbove ==
    /\ num_mines > width * height => pc = "place"
    /\ (num_mines = width * height /\ pc = "play") => Mines(grid) = Cells
    /\ (pc = "place" /\ Mines(grid) = Cells /\ num_mines = width * height)
          => ~(mines_placed < num_mines)

C14_Witness ==
    /\ num_mines > width * height
    /\ pc = "place"
    /\ Mines(grid) = Cells
    /\ mines_placed = width * height

\* C15: on a constructed board adjacent_mines of every mine cell is 0, and
\* _calculate_adjacency leaves the mine cells as they are.
C15_MineAdjacencyZero ==
    pc = "play" =>
        \A p \in Cells :
            grid[p].is_mine =>
                /\ grid[p].adjacent_mines = 0
                /\ calculate_adjacency(grid)[p] = grid[p]

C15_Witness ==
    /\ pc = "play"
    /\ \E p \in Cells :
          /\ grid[p].is_mine
          /\ grid[p].adjacent_mines = 0
          /\ Cardinality(Around(p) \cap Mines(grid)) = 2

\* C16: check_win() changes no cell and no attribute of the board, and its
\* value is that of the board it is called on, so a second call with
\* nothing in between returns the same.
C16_CheckWinPure ==
    [][last'.op = "check_win" =>
          /\ grid' = grid
          /\ UNCHANGED <<boardVars, mines_placed, pc, gameVars>>
          /\ last'.ret = check_win(grid')
          /\ last.op = "check_win" => last'.ret = last.ret]_vars

C16_Witness ==
    /\ last.op = "check_win"
    /\ last.ret
    /\ Cardinality(Mines(grid)) = 2
    /\ Cardinality(Revealed(grid)) >= 2

\* C17: in a Game with 0 <= mines < width * height, game_over and game_won
\* are never both true.
C17_NotLostAndWon ==
    num_mines < width * height => ~(game_over /\ game_won)

C17_Witness ==
    /\ num_mines < width * height
    /\ last.op = "click"
    /\ last.button = 1
    /\ grid[Target(last)].is_mine
    /\ game_over
    /\ ~game_won
    /\ Mines(grid) \subseteq Flagged(grid)
    /\ Cardinality(Cells \ Revealed(grid)) = Cardinality(Mines(grid)) + 1

\* C18: in a Game no mine cell is ever revealed.
C18_NoMineRevealed ==
    \A p \in Cells : grid[p].is_mine => ~grid[p].is_revealed

C18_Witness ==
    /\ last.op = "click"
    /\ last.button = 1
    /\ ZeroCell(grid, Target(last))
    /\ Cardinality(Revealed(grid)) >= 2
    /\ \E p \in Cells :
          /\ grid[p].is_mine
          /\ ~grid[p].is_flagged
          /\ \E q \in Around(p) : grid[q].is_revealed
    /\ ~game_over

\* C19: after every click that _handle_click handles, game_won is the value
\* of check_win() on the resulting board, and game_won is never true on a
\* board on which check_win() is false.
C19_WonIffCheckWin ==
    /\ [][last'.op = "click" =>
             (game_won' = check_win(grid') /\ last'.ret = game_won')]_vars
    /\ [](game_won => check_win(grid))

C19_Witness ==
    /\ last.op = "click"
    /\ last.button = 3
    /\ game_won
    /\ check_win(grid)
    /\ grid[Target(last)].is_mine
    /\ Revealed(grid) # {}

\* C20: on every board on which check_win() is true the flagged cells are
\* exactly the mines.
C20_FlagsAreMinesAtWin ==
    (pc = "play" /\ check_win(grid)) => Flagged(grid) = Mines(grid)

C20_Witness ==
    /\ pc = "play"
    /\ check_win(grid)
    /\ last.op = "reveal_cell"
    /\ Cardinality(Mines(grid)) = 1
    /\ Cardinality(Cells) >= 3

====
